---------------------------- MODULE Spec2Model ----------------------------
(***************************************************************************)
(* Machine inventory controller (controllers/machine.go): the read         *)
(* handlers GetMachines and GetMachine, the default-machine classifier,    *)
(* and the write handlers AddMachine, UpdateMachine and DeleteMachine,     *)
(* running as concurrent requests over one shared store.                   *)
(***************************************************************************)
EXTENDS Integers, Sequences, FiniteSets, TLC

VARIABLES
    store,      \* the persisted machines: a set of records, one per owner/name
    pc,         \* pc[s]: the position of the request handled in slot s
    req,        \* req[s]: the inputs of that request (query parameters, body)
    loc,        \* loc[s]: the handler's local variables
    resp,       \* resp[s]: the response envelope written so far
    log,        \* log[s]: what the handler did, in order (history)
    deleted,    \* ids removed by a successful DeleteMachine and not added since (history)
    started,    \* number of requests accepted so far
    cm,         \* classifier harness: the record under classification
    cres,       \* classifier harness: whether cm was classified, and the verdict
    cflip       \* classifier harness: the condition falsified since a default verdict

vars == <<store, pc, req, loc, resp, log, deleted, started, cm, cres, cflip>>
handlerVars == <<store, pc, req, loc, resp, log, deleted, started>>
classifierVars == <<cm, cres, cflip>>

(***************************************************************************)
(* Bounds                                                                  *)
(***************************************************************************)
MaxRequests == 2

Slots == {"r1", "r2"}

\* requests are interchangeable, so a new one is given the first free slot
SlotOrder == <<"r1", "r2">>

Free(p) == p \in {"idle", "done"}

FirstFree(pcs, s) ==
    /\ Free(pcs[s])
    /\ \A i, j \in 1..Len(SlotOrder) :
         (i < j /\ SlotOrder[j] = s) => ~Free(pcs[SlotOrder[i]])

(***************************************************************************)
(* Strings                                                                 *)
(***************************************************************************)
\* strings.HasPrefix(s, prefix)
HasPrefix(s, prefix) ==
    /\ Len(s) >= Len(prefix)
    /\ SubSeq(s, 1, Len(prefix)) = prefix

(***************************************************************************)
(* Machine records                                                         *)
(***************************************************************************)
Machine(owner, name, display, provider, state, tag, expire, pub, priv, pwd) ==
    [ Owner |-> owner, Name |-> name, DisplayName |-> display,
      Provider |-> provider, State |-> state, Tag |-> tag,
      ExpireTime |-> expire, PublicIp |-> pub,
      PrivateIp |-> priv, RemotePassword |-> pwd ]

\* isDefaultMachine with the Tag comparison dropped
isDefaultMachine_NoTag(machine) ==
    IF machine.PublicIp = "" /\ machine.PrivateIp = ""
    THEN IF /\ HasPrefix(machine.Name, "machine_")
            /\ HasPrefix(machine.DisplayName, "New Machine - ")
         THEN /\ machine.Provider = "provider_1"
              /\ machine.State = "Active"
              /\ machine.ExpireTime = ""
         ELSE FALSE
    ELSE FALSE

\* isDefaultMachine, with the nesting of the source
isDefaultMachine(machine) ==
    IF machine.PublicIp = "" /\ machine.PrivateIp = ""
    THEN IF /\ HasPrefix(machine.Name, "machine_")
            /\ HasPrefix(machine.DisplayName, "New Machine - ")
         THEN /\ machine.Provider = "provider_1"
              /\ machine.State = "Active"
              /\ machine.Tag = ""
              /\ machine.ExpireTime = ""
         ELSE FALSE
    ELSE FALSE

(***************************************************************************)
(* Integers in query parameters                                            *)
(***************************************************************************)
Digits == <<"0", "1", "2", "3", "4", "5", "6", "7", "8", "9">>

IsDigit(c) == \E i \in 1..10 : Digits[i] = c

DigitValue(c) == (CHOOSE i \in 1..10 : Digits[i] = c) - 1

\* the string is a decimal integer: digits, after an optional sign
IsInteger(str) ==
    LET body == IF Len(str) > 0 /\ SubSeq(str, 1, 1) \in {"-", "+"}
                THEN SubSeq(str, 2, Len(str)) ELSE str
    IN  /\ Len(body) > 0
        /\ \A i \in 1..Len(body) : IsDigit(SubSeq(body, i, i))

RECURSIVE DecimalValue(_)
DecimalValue(str) ==
    IF Len(str) = 0 THEN 0
    ELSE 10 * DecimalValue(SubSeq(str, 1, Len(str) - 1))
            + DigitValue(SubSeq(str, Len(str), Len(str)))

\* strconv.Atoi on a string that IsInteger
IntegerValue(str) ==
    IF SubSeq(str, 1, 1) = "-" THEN 0 - DecimalValue(SubSeq(str, 2, Len(str)))
    ELSE IF SubSeq(str, 1, 1) = "+" THEN DecimalValue(SubSeq(str, 2, Len(str)))
    ELSE DecimalValue(str)

\* util.ParseInt: the value of the string; a string that is no integer is a
\* parse error, which ends the request
ParseIntFails(str) == str # "" /\ ~IsInteger(str)

ParseInt(str) == IF str = "" THEN 0 ELSE IntegerValue(str)

(***************************************************************************)
(* Ids                                                                     *)
(***************************************************************************)
\* Machine.GetId: "owner/name"
GetId(machine) == machine.Owner \o "/" \o machine.Name

\* util.GetOwnerAndNameFromId: the parts before and after the "/"
GetOwnerAndNameFromId(id) ==
    LET slash == CHOOSE i \in 1..Len(id) : SubSeq(id, i, i) = "/"
    IN  <<SubSeq(id, 1, slash - 1), SubSeq(id, slash + 1, Len(id))>>

(***************************************************************************)
(* The store (package object)                                              *)
(***************************************************************************)
\* the order in which the store lists names
NameOrder == <<"db1", "machine_1", "machine_2", "web1">>

Rank(name) == CHOOSE i \in 1..Len(NameOrder) : NameOrder[i] = name

RECURSIVE Ascending(_)
Ascending(S) ==
    IF S = {} THEN <<>>
    ELSE LET first == CHOOSE m \in S : \A o \in S : Rank(m.Name) <= Rank(o.Name)
         IN  <<first>> \o Ascending(S \ {first})

Reverse(seq) == [i \in 1..Len(seq) |-> seq[Len(seq) + 1 - i]]

\* object.GetMachines(owner): all machines of the owner
GetMachinesOf(st, owner) == Ascending({ m \in st : m.Owner = owner })

Present(st, id) == \E m \in st : GetId(m) = id

\* object.GetMachine(id), for an id that is Present
MachineOf(st, id) == CHOOSE m \in st : GetId(m) = id

FieldOf(m, field) ==
    CASE field = "state" -> m.State
      [] field = "provider" -> m.Provider
      [] field = "name" -> m.Name
      [] OTHER -> ""

\* the machines of the owner that the field/value filter keeps
Matching(st, owner, field, value) ==
    { m \in st : /\ m.Owner = owner
                 /\ (field # "" /\ value # "") => FieldOf(m, field) = value }

\* object.GetMachineCount(owner, field, value)
GetMachineCount(st, owner, field, value) ==
    Cardinality(Matching(st, owner, field, value))

Min(a, b) == IF a <= b THEN a ELSE b

\* object.GetPaginationMachines(owner, offset, limit, field, value, sortField, sortOrder)
GetPaginationMachines(st, owner, offset, limit, field, value, sortField, sortOrder) ==
    LET asc == Ascending(Matching(st, owner, field, value))
        sorted == IF sortField # "" /\ sortOrder = "descend" THEN Reverse(asc) ELSE asc
    IN  SubSeq(sorted, offset + 1, Min(offset + limit, Len(sorted)))

\* what a cloud refresh may report as the state of a machine
CloudStates == {"Active", "Stopped"}

\* the stores object.SyncMachinesCloud(owner) may leave: every machine of the
\* owner that is not default is refreshed from the provider; default machines
\* and the machines of other owners are as they were
SyncOutcomes(st, owner) ==
    LET real == { m \in st : m.Owner = owner /\ ~isDefaultMachine(m) }
        kept == st \ real
    IN  { kept \cup { [m EXCEPT !.State = f[m]] : m \in real } :
            f \in [real -> CloudStates] }

\* object.GetMaskedMachine: the record with its secret withheld
GetMaskedMachine(machine) ==
    [machine EXCEPT !.RemotePassword = IF @ = "" THEN "" ELSE "***"]

\* object.GetMaskedMachines
GetMaskedMachines(machines) ==
    [i \in 1..Len(machines) |-> GetMaskedMachine(machines[i])]

\* Machine.IsDefault
IsDefault(machine) == isDefaultMachine(machine)

(***************************************************************************)
(* pagination.Paginator (beego/utils/pagination)                           *)
(***************************************************************************)
\* NewPaginator: a page size of 0 or less is replaced by 10
PerPageNums(per) == IF per <= 0 THEN 10 ELSE per

\* Paginator.PageNums: ceil(nums / PerPageNums)
PageNums(per, nums) == (nums + PerPageNums(per) - 1) \div PerPageNums(per)

\* Paginator.Page: the "p" parameter read with its conversion error dropped,
\* brought into 1..PageNums
Page(p, per, nums) ==
    LET asked == IF IsInteger(p) THEN IntegerValue(p) ELSE 0
        capped == IF asked > PageNums(per, nums) THEN PageNums(per, nums) ELSE asked
    IN  IF capped <= 0 THEN 1 ELSE capped

\* Paginator.Offset
Offset(p, per, nums) == (Page(p, per, nums) - 1) * PerPageNums(per)

\* Paginator.Nums
Nums(nums) == nums

(***************************************************************************)
(* Requests                                                                *)
(***************************************************************************)
\* the zero value of object.Machine
NoMachine == Machine("", "", "", "", "", "", "", "", "", "")

aliceDefault ==
    Machine("alice", "machine_1", "New Machine - 1", "provider_1", "Active",
            "", "", "", "", "secret")
aliceClaimed ==
    Machine("alice", "machine_1", "New Machine - 1", "provider_1", "Active",
            "", "", "1.2.3.4", "", "secret")
aliceWeb ==
    Machine("alice", "web1", "Web 1", "provider_2", "Active",
            "prod", "", "5.6.7.8", "10.0.0.1", "secret")
bobDefault ==
    Machine("bob", "machine_2", "New Machine - 2", "provider_1", "Active",
            "", "", "", "", "")

Owners == {"alice", "bob"}

\* the stores a run may start from: any of these machines, one per id
InitialStores == SUBSET {aliceDefault, aliceWeb, bobDefault}

\* request bodies: a machine in JSON, or bytes that do not decode
Bodies ==
    { [valid |-> TRUE, machine |-> m] :
        m \in {aliceDefault, aliceClaimed, aliceWeb, bobDefault} }
    \cup { [valid |-> FALSE, machine |-> NoMachine] }

NoBody == [valid |-> FALSE, machine |-> NoMachine]

MachineIds == {"alice/machine_1", "alice/web1", "bob/machine_2"}

Query(pageSize, p, field, value, sortField, sortOrder) ==
    [ pageSize |-> pageSize, p |-> p, field |-> field, value |-> value,
      sortField |-> sortField, sortOrder |-> sortOrder ]

ListQueries ==
    { Query("", "", "", "", "", ""),
      Query("", "", "state", "Stopped", "name", "descend"),
      Query("2", "", "", "", "", ""),
      Query("1", "2", "", "", "name", "descend"),
      Query("1", "1", "state", "Active", "", ""),
      Query("2", "1", "provider", "provider_1", "", ""),
      Query("1", "5", "", "", "", ""),
      Query("abc", "1", "", "", "", ""),
      Query("1", "abc", "", "", "", "") }

Request(kind, owner, query, id, body) ==
    [ kind |-> kind, owner |-> owner, pageSize |-> query.pageSize, p |-> query.p,
      field |-> query.field, value |-> query.value,
      sortField |-> query.sortField, sortOrder |-> query.sortOrder,
      id |-> id, body |-> body ]

NoQuery == Query("", "", "", "", "", "")

Body(m) == [valid |-> TRUE, machine |-> m]

\* the requests a run draws from
Requests ==
    { Request("GetMachines", "alice", q, "", NoBody) : q \in ListQueries }
    \cup { Request("GetMachines", "bob", q, "", NoBody) :
             q \in {NoQuery, Query("1", "1", "", "", "", "")} }
    \cup { Request("GetMachine", "", NoQuery, id, NoBody) : id \in MachineIds }
    \cup { Request("AddMachine", "", NoQuery, "", b) : b \in Bodies }
    \cup { Request("UpdateMachine", "", NoQuery, "alice/machine_1", Body(aliceClaimed)),
           Request("UpdateMachine", "", NoQuery, "alice/machine_1", Body(aliceDefault)),
           Request("UpdateMachine", "", NoQuery, "alice/web1", Body(aliceWeb)),
           Request("UpdateMachine", "", NoQuery, "bob/machine_2", Body(aliceWeb)),
           Request("UpdateMachine", "", NoQuery, "alice/web1", NoBody) }
    \cup { Request("DeleteMachine", "", NoQuery, "", b) : b \in Bodies \ {Body(aliceClaimed)} }

NoRequest == Request("none", "", NoQuery, "", NoBody)

\* the handler's locals before its first statement
NoLocals ==
    [ machines |-> <<>>, hasNonDefaultMachine |-> FALSE, limit |-> 0, count |-> 0,
      fetched |-> <<>>,         \* history: the machines of the first fetch
      counted |-> {},           \* history: the machines the count query matched
      postSync |-> {},          \* history: the records the request reads, as its
                                \* sync left them, until the response is written
      afterDelete |-> FALSE,    \* history: the id was in deleted at the fetch
      written |-> NoMachine ]   \* history: the machine handed to the store

\* the response envelope {status, msg, data, data2}
NoResponse == [status |-> "none", msg |-> "", data |-> <<>>, data2 |-> 0]

ErrStore == "store error"
ErrNotFound == "machine not found"
ErrSync == "cloud sync failed"
ErrParse == "invalid syntax"
ErrDecode == "unexpected end of JSON input"
ErrDuplicate == "duplicate entry"

\* c.ResponseError(msg)
ResponseError(msg) == [status |-> "error", msg |-> msg, data |-> <<>>, data2 |-> 0]

\* c.ResponseOk(data) and c.ResponseOk(data, data2)
ResponseOk(data, data2) == [status |-> "ok", msg |-> "", data |-> data, data2 |-> data2]

\* wrapActionResponse(affected, err): the error, or "Affected" / "Unaffected"
wrapActionResponse(affected, err) ==
    IF err # "" THEN ResponseError(err)
    ELSE [ status |-> "ok", msg |-> IF affected THEN "Affected" ELSE "Unaffected",
           data |-> <<>>, data2 |-> 0 ]

Event(ev, arg) == [ev |-> ev, arg |-> arg]

\* slot s ends its request with response r, having done events evs
Finish(s, r, evs) ==
    /\ resp' = [resp EXCEPT ![s] = r]
    /\ log' = [log EXCEPT ![s] = @ \o evs \o <<Event("respond", r.status)>>]
    /\ pc' = [pc EXCEPT ![s] = "done"]

\* slot s goes on to position next, having done events evs
Goto(s, next, evs) ==
    /\ log' = [log EXCEPT ![s] = @ \o evs]
    /\ pc' = [pc EXCEPT ![s] = next]
    /\ UNCHANGED resp

EntryOf(kind) ==
    CASE kind = "GetMachines" -> "GetMachines_fetch"
      [] kind = "GetMachine" -> "GetMachine_fetch"
      [] kind = "AddMachine" -> "AddMachine"
      [] kind = "UpdateMachine" -> "UpdateMachine"
      [] kind = "DeleteMachine" -> "DeleteMachine"

\* a request arrives and is dispatched to its handler
Receive(s) ==
    /\ FirstFree(pc, s)
    /\ started < MaxRequests
    /\ \E r \in Requests :
         /\ req' = [req EXCEPT ![s] = r]
         /\ pc' = [pc EXCEPT ![s] = EntryOf(r.kind)]
    /\ loc' = [loc EXCEPT ![s] = NoLocals]
    /\ resp' = [resp EXCEPT ![s] = NoResponse]
    /\ log' = [log EXCEPT ![s] = <<>>]
    /\ started' = started + 1
    /\ UNCHANGED <<store, deleted>>
    /\ UNCHANGED classifierVars

(***************************************************************************)
(* GetMachines                                                             *)
(***************************************************************************)
\* lines 49-55 with only the first machine looked at
hasNonDefaultMachine_FirstOnly(machines) ==
    machines # <<>> /\ ~IsDefault(machines[1])

\* lines 49-55: whether some fetched machine is not default
hasNonDefaultMachine(machines) ==
    \E i \in 1..Len(machines) : ~IsDefault(machines[i])

\* the records a read request reads from store st: the machines of the owner
\* (lines 43, 66, 75, 82), the machine of the id (lines 102, 125)
Scope(st, r) ==
    IF r.kind = "GetMachine" THEN { m \in st : GetId(m) = r.id }
    ELSE { m \in st : m.Owner = r.owner }

\* line 65: the request asks for no pagination
Unpaginated(r) == r.pageSize = "" \/ r.p = ""

\* the position after the sync block of lines 57-63
AfterSync(r) == IF Unpaginated(r) THEN "GetMachines_list" ELSE "GetMachines_count"

\* lines 43-55 with the error of the fetch dropped: the handler goes on with
\* the machines it was given, none
GetMachines_fetch_IgnoreError(s) ==
    /\ pc[s] = "GetMachines_fetch"
    /\ \/ /\ loc' = [loc EXCEPT ![s].machines = <<>>,
                                 ![s].fetched = <<>>,
                                 ![s].hasNonDefaultMachine = FALSE]
          /\ Goto(s, AfterSync(req[s]), <<Event("fetch", "failed")>>)
       \/ LET machines == GetMachinesOf(store, req[s].owner)
              has == hasNonDefaultMachine(machines)
          IN  /\ loc' = [loc EXCEPT ![s].machines = machines,
                                    ![s].fetched = machines,
                                    ![s].hasNonDefaultMachine = has]
              /\ Goto(s, IF has THEN "GetMachines_sync" ELSE AfterSync(req[s]),
                      <<Event("fetch", "ok")>>
                        \o (IF machines # <<>> THEN <<Event("classify", "")>> ELSE <<>>))
    /\ UNCHANGED <<store, req, deleted, started>>
    /\ UNCHANGED classifierVars

\* lines 43-55: the first fetch and the scan for a machine that is not default
GetMachines_fetch(s) ==
    /\ pc[s] = "GetMachines_fetch"
    /\ \/ /\ Finish(s, ResponseError(ErrStore), <<Event("fetch", "failed")>>)
          /\ UNCHANGED loc
       \/ LET machines == GetMachinesOf(store, req[s].owner)
              has == hasNonDefaultMachine(machines)
          IN  /\ loc' = [loc EXCEPT ![s].machines = machines,
                                    ![s].fetched = machines,
                                    ![s].hasNonDefaultMachine = has]
              /\ Goto(s, IF has THEN "GetMachines_sync" ELSE AfterSync(req[s]),
                      <<Event("fetch", "ok")>>
                        \o (IF machines # <<>> THEN <<Event("classify", "")>> ELSE <<>>))
    /\ UNCHANGED <<store, req, deleted, started>>
    /\ UNCHANGED classifierVars

\* lines 57-63 with the error of the sync dropped
GetMachines_sync_IgnoreError(s) ==
    /\ pc[s] = "GetMachines_sync"
    /\ \/ /\ Goto(s, AfterSync(req[s]),
                  <<Event("sync", req[s].owner), Event("synced", "failed")>>)
          /\ UNCHANGED <<store, loc>>
       \/ /\ store' \in SyncOutcomes(store, req[s].owner)
          /\ loc' = [loc EXCEPT ![s].postSync = Scope(store', req[s])]
          /\ Goto(s, AfterSync(req[s]),
                  <<Event("sync", req[s].owner), Event("synced", "ok")>>)
    /\ UNCHANGED <<req, deleted, started>>
    /\ UNCHANGED classifierVars

\* lines 57-63: the cloud sync of the owner; its error ends the request
GetMachines_sync(s) ==
    /\ pc[s] = "GetMachines_sync"
    /\ \/ /\ Finish(s, ResponseError(ErrSync),
                    <<Event("sync", req[s].owner), Event("synced", "failed")>>)
          /\ UNCHANGED <<store, loc>>
       \/ /\ store' \in SyncOutcomes(store, req[s].owner)
          /\ loc' = [loc EXCEPT ![s].postSync = Scope(store', req[s])]
          /\ Goto(s, AfterSync(req[s]),
                  <<Event("sync", req[s].owner), Event("synced", "ok")>>)
    /\ UNCHANGED <<req, deleted, started>>
    /\ UNCHANGED classifierVars

\* line 66 with the field/value filter of the paginated branch applied
ListQuery_Filtered(st, r) == Ascending(Matching(st, r.owner, r.field, r.value))

\* line 66: object.GetMachines(owner), whatever the other parameters
ListQuery(st, r) == GetMachinesOf(st, r.owner)

\* lines 66-72: all machines of the owner, fetched again, masked
GetMachines_list(s) ==
    /\ pc[s] = "GetMachines_list"
    /\ \/ /\ Finish(s, ResponseError(ErrStore), <<Event("list", "failed")>>)
          /\ loc' = [loc EXCEPT ![s].postSync = {}]
       \/ LET machines == GetMaskedMachines(ListQuery(store, req[s]))
          IN  /\ loc' = [loc EXCEPT ![s].machines = machines, ![s].postSync = {}]
              /\ Finish(s, ResponseOk(machines, 0),
                        <<Event("list", "ok"), Event("mask", "")>>)
    /\ UNCHANGED <<store, req, deleted, started>>
    /\ UNCHANGED classifierVars

\* line 75 with the filter left out of the count
CountQuery_Unfiltered(st, r) == GetMachineCount(st, r.owner, "", "")

\* line 75: object.GetMachineCount(owner, field, value)
CountQuery(st, r) == GetMachineCount(st, r.owner, r.field, r.value)

\* lines 74-79: the page size is parsed and the matching machines counted
GetMachines_count(s) ==
    /\ pc[s] = "GetMachines_count"
    /\ IF ParseIntFails(req[s].pageSize)
       THEN /\ Finish(s, ResponseError(ErrParse), <<Event("parse", "failed")>>)
            /\ loc' = [loc EXCEPT ![s].postSync = {}]
       ELSE \/ /\ Finish(s, ResponseError(ErrStore),
                         <<Event("parse", "ok"), Event("count", "failed")>>)
               /\ loc' = [loc EXCEPT ![s].postSync = {}]
            \/ /\ loc' = [loc EXCEPT
                            ![s].limit = ParseInt(req[s].pageSize),
                            ![s].count = CountQuery(store, req[s]),
                            ![s].counted = Matching(store, req[s].owner,
                                                    req[s].field, req[s].value)]
               /\ Goto(s, "GetMachines_page",
                       <<Event("parse", "ok"), Event("count", "ok")>>)
    /\ UNCHANGED <<store, req, deleted, started>>
    /\ UNCHANGED classifierVars

\* lines 81-88: the paginator, the page of machines, masked, and the total
GetMachines_page(s) ==
    /\ pc[s] = "GetMachines_page"
    /\ \/ /\ Finish(s, ResponseError(ErrStore), <<Event("page", "failed")>>)
          /\ loc' = [loc EXCEPT ![s].postSync = {}]
       \/ LET r == req[s]
              offset == Offset(r.p, loc[s].limit, loc[s].count)
              machines == GetMaskedMachines(
                  GetPaginationMachines(store, r.owner, offset, loc[s].limit,
                                        r.field, r.value, r.sortField, r.sortOrder))
          IN  /\ loc' = [loc EXCEPT ![s].machines = machines, ![s].postSync = {}]
              /\ Finish(s, ResponseOk(machines, Nums(loc[s].count)),
                        <<Event("page", "ok"), Event("mask", "")>>)
    /\ UNCHANGED <<store, req, deleted, started>>
    /\ UNCHANGED classifierVars

(***************************************************************************)
(* GetMachine                                                              *)
(***************************************************************************)
\* line 109 with the record passed on as fetched
maskedMachine_Raw(machine) == machine

\* line 109: object.GetMaskedMachine(machine)
maskedMachine(machine) == GetMaskedMachine(machine)

\* line 108 with every machine sent on to the sync
ReturnsAtOnce_Never(machine) == FALSE

\* line 108: a default machine is answered without a sync
ReturnsAtOnce(machine) == IsDefault(machine)

\* lines 102-116 with the error of the fetch dropped: an absent machine goes on
\* as the zero machine
GetMachine_fetch_NoErrCheck(s) ==
    /\ pc[s] = "GetMachine_fetch"
    /\ \/ /\ Finish(s, ResponseError(ErrStore), <<Event("fetch", "failed")>>)
          /\ loc' = [loc EXCEPT ![s].afterDelete = req[s].id \in deleted]
       \/ /\ LET machine == IF Present(store, req[s].id)
                            THEN MachineOf(store, req[s].id) ELSE NoMachine
             IN  IF ReturnsAtOnce(machine)
                 THEN /\ loc' = [loc EXCEPT ![s].machines = <<maskedMachine(machine)>>,
                                           ![s].fetched = <<machine>>,
                                           ![s].afterDelete = req[s].id \in deleted]
                      /\ Finish(s, ResponseOk(<<maskedMachine(machine)>>, 0),
                                <<Event("fetch", "ok"), Event("classify", ""),
                                  Event("mask", "")>>)
                 ELSE /\ loc' = [loc EXCEPT ![s].machines = <<machine>>,
                                           ![s].fetched = <<machine>>,
                                           ![s].afterDelete = req[s].id \in deleted,
                                           ![s].hasNonDefaultMachine = TRUE]
                      /\ Goto(s, "GetMachine_sync",
                              <<Event("fetch", "ok"), Event("classify", "")>>)
    /\ UNCHANGED <<store, req, deleted, started>>
    /\ UNCHANGED classifierVars

\* lines 102-116: the fetch; a default machine is masked and returned at once
GetMachine_fetch(s) ==
    /\ pc[s] = "GetMachine_fetch"
    /\ \/ /\ Finish(s, ResponseError(ErrStore), <<Event("fetch", "failed")>>)
          /\ loc' = [loc EXCEPT ![s].afterDelete = req[s].id \in deleted]
       \/ /\ ~Present(store, req[s].id)
          /\ Finish(s, ResponseError(ErrNotFound), <<Event("fetch", "absent")>>)
          /\ loc' = [loc EXCEPT ![s].afterDelete = req[s].id \in deleted]
       \/ /\ Present(store, req[s].id)
          /\ LET machine == MachineOf(store, req[s].id)
             IN  IF ReturnsAtOnce(machine)
                 THEN /\ loc' = [loc EXCEPT ![s].machines = <<maskedMachine(machine)>>,
                                           ![s].fetched = <<machine>>,
                                           ![s].afterDelete = req[s].id \in deleted]
                      /\ Finish(s, ResponseOk(<<maskedMachine(machine)>>, 0),
                                <<Event("fetch", "ok"), Event("classify", ""),
                                  Event("mask", "")>>)
                 ELSE /\ loc' = [loc EXCEPT ![s].machines = <<machine>>,
                                           ![s].fetched = <<machine>>,
                                           ![s].afterDelete = req[s].id \in deleted,
                                           ![s].hasNonDefaultMachine = TRUE]
                      /\ Goto(s, "GetMachine_sync",
                              <<Event("fetch", "ok"), Event("classify", "")>>)
    /\ UNCHANGED <<store, req, deleted, started>>
    /\ UNCHANGED classifierVars

\* lines 118-123 with the return of line 122 missing: the error is answered
\* and the handler goes on to the re-fetch
GetMachine_sync_NoReturn(s) ==
    /\ pc[s] = "GetMachine_sync"
    /\ LET owner == GetOwnerAndNameFromId(req[s].id)[1]
       IN  \/ /\ resp' = [resp EXCEPT ![s] = ResponseError(ErrSync)]
              /\ log' = [log EXCEPT ![s] = @ \o <<Event("sync", owner),
                                                  Event("synced", "failed"),
                                                  Event("respond", "error")>>]
              /\ pc' = [pc EXCEPT ![s] = "GetMachine_refetch"]
              /\ UNCHANGED <<store, loc>>
           \/ /\ store' \in SyncOutcomes(store, owner)
              /\ loc' = [loc EXCEPT ![s].postSync = Scope(store', req[s])]
              /\ Goto(s, "GetMachine_refetch",
                      <<Event("sync", owner), Event("synced", "ok")>>)
    /\ UNCHANGED <<req, deleted, started>>
    /\ UNCHANGED classifierVars

\* lines 118-123: the cloud sync of the owner named in the id
GetMachine_sync(s) ==
    /\ pc[s] = "GetMachine_sync"
    /\ LET owner == GetOwnerAndNameFromId(req[s].id)[1]
       IN  \/ /\ Finish(s, ResponseError(ErrSync),
                        <<Event("sync", owner), Event("synced", "failed")>>)
              /\ UNCHANGED <<store, loc>>
           \/ /\ store' \in SyncOutcomes(store, owner)
              /\ loc' = [loc EXCEPT ![s].postSync = Scope(store', req[s])]
              /\ Goto(s, "GetMachine_refetch",
                      <<Event("sync", owner), Event("synced", "ok")>>)
    /\ UNCHANGED <<req, deleted, started>>
    /\ UNCHANGED classifierVars

\* lines 125-131 with the machine of the first fetch masked and returned, the
\* store not read again
GetMachine_refetch_Stale(s) ==
    /\ pc[s] = "GetMachine_refetch"
    /\ LET machine == GetMaskedMachine(loc[s].machines[1])
       IN  /\ loc' = [loc EXCEPT ![s].machines = <<machine>>, ![s].postSync = {}]
           /\ Finish(s, ResponseOk(<<machine>>, 0),
                     <<Event("refetch", "ok"), Event("mask", "")>>)
    /\ UNCHANGED <<store, req, deleted, started>>
    /\ UNCHANGED classifierVars

\* lines 125-131 with the error check of lines 126-129 missing: a machine
\* that is gone is masked and returned as the zero machine
GetMachine_refetch_NoErrCheck(s) ==
    /\ pc[s] = "GetMachine_refetch"
    /\ LET machine == GetMaskedMachine(IF Present(store, req[s].id)
                                       THEN MachineOf(store, req[s].id)
                                       ELSE NoMachine)
       IN  /\ loc' = [loc EXCEPT ![s].machines = <<machine>>, ![s].postSync = {}]
           /\ Finish(s, ResponseOk(<<machine>>, 0),
                     <<Event("refetch", IF Present(store, req[s].id)
                                        THEN "ok" ELSE "absent"),
                       Event("mask", "")>>)
    /\ UNCHANGED <<store, req, deleted, started>>
    /\ UNCHANGED classifierVars

\* lines 125-131: the machine fetched again, masked
GetMachine_refetch(s) ==
    /\ pc[s] = "GetMachine_refetch"
    /\ \/ /\ Finish(s, ResponseError(ErrStore), <<Event("refetch", "failed")>>)
          /\ loc' = [loc EXCEPT ![s].postSync = {}]
       \/ /\ ~Present(store, req[s].id)
          /\ Finish(s, ResponseError(ErrNotFound), <<Event("refetch", "absent")>>)
          /\ loc' = [loc EXCEPT ![s].postSync = {}]
       \/ /\ Present(store, req[s].id)
          /\ LET machine == GetMaskedMachine(MachineOf(store, req[s].id))
             IN  /\ loc' = [loc EXCEPT ![s].machines = <<machine>>, ![s].postSync = {}]
                 /\ Finish(s, ResponseOk(<<machine>>, 0),
                           <<Event("refetch", "ok"), Event("mask", "")>>)
    /\ UNCHANGED <<store, req, deleted, started>>
    /\ UNCHANGED classifierVars

(***************************************************************************)
(* AddMachine, UpdateMachine, DeleteMachine                                *)
(***************************************************************************)
\* lines 163, 182, 200 with the error of json.Unmarshal dropped
DecodeFails_Ignored(body) == FALSE

\* lines 163, 182, 200: json.Unmarshal returns an error for a body that is no
\* machine
DecodeFails(body) == ~body.valid

\* line 187 with the record masked on its way to the store
AddedRecord_Masked(machine) == GetMaskedMachine(machine)

\* line 187: the decoded machine is handed to object.AddMachine as it is
AddedRecord(machine) == machine

\* lines 179-189
AddMachine(s) ==
    /\ pc[s] = "AddMachine"
    /\ IF DecodeFails(req[s].body)
       THEN /\ Finish(s, ResponseError(ErrDecode), <<>>)
            /\ UNCHANGED <<store, loc, deleted>>
       ELSE LET machine == AddedRecord(req[s].body.machine)
            IN  /\ loc' = [loc EXCEPT ![s].written = machine]
                /\ \/ /\ Finish(s, wrapActionResponse(FALSE, ErrStore),
                                <<Event("add", "failed")>>)
                      /\ UNCHANGED <<store, deleted>>
                   \/ /\ Present(store, GetId(machine))
                      /\ Finish(s, wrapActionResponse(FALSE, ErrDuplicate),
                                <<Event("add", "duplicate")>>)
                      /\ UNCHANGED <<store, deleted>>
                   \/ /\ ~Present(store, GetId(machine))
                      /\ store' = store \cup {machine}
                      /\ deleted' = deleted \ {GetId(machine)}
                      /\ Finish(s, wrapActionResponse(TRUE, ""), <<Event("add", "ok")>>)
    /\ UNCHANGED <<req, started>>
    /\ UNCHANGED classifierVars

\* lines 158-170
UpdateMachine(s) ==
    /\ pc[s] = "UpdateMachine"
    /\ IF DecodeFails(req[s].body)
       THEN /\ Finish(s, ResponseError(ErrDecode), <<>>)
            /\ UNCHANGED <<store, loc>>
       ELSE LET machine == req[s].body.machine
                id == req[s].id
            IN  /\ loc' = [loc EXCEPT ![s].written = machine]
                /\ \/ /\ Finish(s, wrapActionResponse(FALSE, ErrStore),
                                <<Event("update", "failed")>>)
                      /\ UNCHANGED store
                   \/ /\ ~Present(store, id)
                      /\ Finish(s, wrapActionResponse(FALSE, ""),
                                <<Event("update", "absent")>>)
                      /\ UNCHANGED store
                   \/ /\ Present(store, id)
                      /\ LET old == MachineOf(store, id)
                         IN  store' = (store \ {old})
                                \cup {[machine EXCEPT !.Owner = old.Owner,
                                                      !.Name = old.Name]}
                      /\ Finish(s, wrapActionResponse(TRUE, ""), <<Event("update", "ok")>>)
    /\ UNCHANGED <<req, deleted, started>>
    /\ UNCHANGED classifierVars

\* lines 198-208
DeleteMachine(s) ==
    /\ pc[s] = "DeleteMachine"
    /\ IF DecodeFails(req[s].body)
       THEN /\ Finish(s, ResponseError(ErrDecode), <<>>)
            /\ UNCHANGED <<store, loc, deleted>>
       ELSE LET machine == req[s].body.machine
                id == GetId(machine)
            IN  /\ loc' = [loc EXCEPT ![s].written = machine]
                /\ \/ /\ Finish(s, wrapActionResponse(FALSE, ErrStore),
                                <<Event("delete", "failed")>>)
                      /\ UNCHANGED <<store, deleted>>
                   \/ /\ ~Present(store, id)
                      /\ Finish(s, wrapActionResponse(FALSE, ""),
                                <<Event("delete", "absent")>>)
                      /\ UNCHANGED <<store, deleted>>
                   \/ /\ Present(store, id)
                      /\ store' = store \ {MachineOf(store, id)}
                      /\ deleted' = deleted \cup {id}
                      /\ Finish(s, wrapActionResponse(TRUE, ""), <<Event("delete", "ok")>>)
    /\ UNCHANGED <<req, started>>
    /\ UNCHANGED classifierVars

(***************************************************************************)
(* Classifier harness: isDefaultMachine applied to records drawn from a    *)
(* bounded space, and to the same record with one condition falsified.     *)
(***************************************************************************)
ClassifierNames == {"machine_1", "machine_", "machine", "web1", ""}
ClassifierDisplayNames == {"New Machine - 1", "New Machine - ", "New Machine", "Web 1"}
ClassifierProviders == {"provider_1", "provider_2", ""}
ClassifierStates == {"Active", "Stopped", "active"}
ClassifierTags == {"", "prod"}
ClassifierExpireTimes == {"", "2025-01-01T00:00:00Z"}
ClassifierPublicIps == {"", "1.2.3.4"}
ClassifierPrivateIps == {"", "10.0.0.1"}

ClassifierInputs ==
    { Machine("alice", n, d, p, s, t, e, pub, priv, "secret") :
        n \in ClassifierNames, d \in ClassifierDisplayNames,
        p \in ClassifierProviders, s \in ClassifierStates,
        t \in ClassifierTags, e \in ClassifierExpireTimes,
        pub \in ClassifierPublicIps, priv \in ClassifierPrivateIps }

Conditions == {"ips", "name", "displayName", "provider", "state", "tag", "expireTime"}

\* the records that differ from m in the field(s) of condition c only, with
\* condition c false
Falsified(m, c) ==
    CASE c = "ips" ->
            { [m EXCEPT !.PublicIp = pub, !.PrivateIp = priv] :
                <<pub, priv>> \in { q \in ClassifierPublicIps \X ClassifierPrivateIps :
                                      ~(q[1] = "" /\ q[2] = "") } }
      [] c = "name" ->
            { [m EXCEPT !.Name = n] :
                n \in { x \in ClassifierNames : ~HasPrefix(x, "machine_") } }
      [] c = "displayName" ->
            { [m EXCEPT !.DisplayName = d] :
                d \in { x \in ClassifierDisplayNames : ~HasPrefix(x, "New Machine - ") } }
      [] c = "provider" ->
            { [m EXCEPT !.Provider = p] : p \in ClassifierProviders \ {"provider_1"} }
      [] c = "state" ->
            { [m EXCEPT !.State = s] : s \in ClassifierStates \ {"Active"} }
      [] c = "tag" ->
            { [m EXCEPT !.Tag = t] : t \in ClassifierTags \ {""} }
      [] c = "expireTime" ->
            { [m EXCEPT !.ExpireTime = e] : e \in ClassifierExpireTimes \ {""} }

Unclassified == [classified |-> FALSE, verdict |-> FALSE]

\* the classifier is applied to the record at hand
Classify ==
    /\ ~cres.classified
    /\ cres' = [classified |-> TRUE, verdict |-> isDefaultMachine(cm)]
    /\ UNCHANGED <<cm, cflip>>
    /\ UNCHANGED handlerVars

\* a record classified default has one of its conditions falsified and is
\* handed to the classifier again
FalsifyOne ==
    /\ cres.classified
    /\ cres.verdict
    /\ cflip = "none"
    /\ \E c \in Conditions :
         \E m \in Falsified(cm, c) :
            /\ cm' = m
            /\ cflip' = c
    /\ cres' = Unclassified
    /\ UNCHANGED handlerVars

(***************************************************************************)
(* Specifications                                                          *)
(***************************************************************************)
\* the requests over the store
Init ==
    /\ store \in InitialStores
    /\ pc = [s \in Slots |-> "idle"]
    /\ req = [s \in Slots |-> NoRequest]
    /\ loc = [s \in Slots |-> NoLocals]
    /\ resp = [s \in Slots |-> NoResponse]
    /\ log = [s \in Slots |-> <<>>]
    /\ deleted = {}
    /\ started = 0
    /\ cm = NoMachine
    /\ cres = Unclassified
    /\ cflip = "none"

Next ==
    \E s \in Slots :
        \/ Receive(s)
        \/ GetMachines_fetch(s)
        \/ GetMachines_sync(s)
        \/ GetMachines_list(s)
        \/ GetMachines_count(s)
        \/ GetMachines_page(s)
        \/ GetMachine_fetch(s)
        \/ GetMachine_sync(s)
        \/ GetMachine_refetch(s)
        \/ AddMachine(s)
        \/ UpdateMachine(s)
        \/ DeleteMachine(s)

Spec == Init /\ [][Next]_vars

\* the steps of the handler running in slot s
Handler(s) ==
    \/ GetMachines_fetch(s)
    \/ GetMachines_sync(s)
    \/ GetMachines_list(s)
    \/ GetMachines_count(s)
    \/ GetMachines_page(s)
    \/ GetMachine_fetch(s)
    \/ GetMachine_sync(s)
    \/ GetMachine_refetch(s)
    \/ AddMachine(s)
    \/ UpdateMachine(s)
    \/ DeleteMachine(s)

\* each handler runs in a goroutine of its own, which the Go scheduler does not
\* starve: a handler that can take its next step takes it
FairSpec == Spec /\ \A s \in Slots : WF_vars(Handler(s))

\* the classifier on its own
ClassifierInit ==
    /\ store = {}
    /\ pc = [s \in Slots |-> "idle"]
    /\ req = [s \in Slots |-> NoRequest]
    /\ loc = [s \in Slots |-> NoLocals]
    /\ resp = [s \in Slots |-> NoResponse]
    /\ log = [s \in Slots |-> <<>>]
    /\ deleted = {}
    /\ started = 0
    /\ cm \in ClassifierInputs
    /\ cres = Unclassified
    /\ cflip = "none"

ClassifierNext == Classify \/ FalsifyOne

ClassifierSpec == ClassifierInit /\ [][ClassifierNext]_vars

(***************************************************************************)
(* Properties                                                              *)
(***************************************************************************)
Reads == {"GetMachines", "GetMachine"}
Writes == {"AddMachine", "UpdateMachine", "DeleteMachine"}

\* the positions at which ev occurs in the log of slot s
EventsOf(s, ev) == { i \in 1..Len(log[s]) : log[s][i].ev = ev }

Has(s, ev, arg) == \E i \in 1..Len(log[s]) : log[s][i] = Event(ev, arg)

SyncCalls(s) == Cardinality(EventsOf(s, "sync"))

\* the seven conditions of a default machine, side by side
AllConditionsHold(m) ==
    /\ m.PublicIp = "" /\ m.PrivateIp = ""
    /\ HasPrefix(m.Name, "machine_")
    /\ HasPrefix(m.DisplayName, "New Machine - ")
    /\ m.Provider = "provider_1"
    /\ m.State = "Active"
    /\ m.Tag = ""
    /\ m.ExpireTime = ""

\* C1: the classifier answers true exactly for the records on which all the
\* conditions hold (both IPs empty, Name prefixed "machine_", DisplayName
\* prefixed "New Machine - ", Provider "provider_1", State "Active", Tag and
\* ExpireTime empty), and a record classified default is classified not
\* default once any single condition has been made false.
C1_ClassifierIsConjunction ==
    cres.classified =>
        /\ cres.verdict <=> AllConditionsHold(cm)
        /\ cflip # "none" => ~cres.verdict

C1_Witness ==
    /\ cres.classified
    /\ cflip = "tag"
    /\ ~cres.verdict
    /\ cm.Name = "machine_1"

\* C2: a GetMachine whose fetched record is classified default makes no sync
\* call; one whose fetched record is not default makes exactly one, for the
\* owner part of the id, before its response.
C2_GetMachineSync ==
    \A s \in Slots :
        (req[s].kind = "GetMachine" /\ Has(s, "classify", "")) =>
            /\ SyncCalls(s) <= 1
            /\ \A i \in EventsOf(s, "sync") :
                 /\ HasPrefix(req[s].id, log[s][i].arg \o "/")
                 /\ \A j \in EventsOf(s, "respond") : i < j
            /\ IsDefault(loc[s].fetched[1]) => SyncCalls(s) = 0 /\ pc[s] = "done"
            /\ (~IsDefault(loc[s].fetched[1]) /\ pc[s] # "GetMachine_sync")
                  => SyncCalls(s) = 1

C2_Witness ==
    \E s \in Slots :
        /\ req[s].kind = "GetMachine"
        /\ pc[s] = "done"
        /\ resp[s].status = "ok"
        /\ SyncCalls(s) = 1
        /\ Has(s, "sync", "alice")

\* C3: a GetMachines calls the sync, once and for the request's owner, exactly
\* when its first fetch holds a machine that is not default; an empty or
\* all-default fetch calls no sync.
C3_ListSyncGate ==
    \A s \in Slots :
        (req[s].kind = "GetMachines" /\ Has(s, "fetch", "ok")) =>
            LET real == { i \in 1..Len(loc[s].fetched) : ~IsDefault(loc[s].fetched[i]) }
            IN  /\ \A i \in EventsOf(s, "sync") : log[s][i].arg = req[s].owner
                /\ IF pc[s] = "GetMachines_sync"
                   THEN SyncCalls(s) = 0 /\ real # {}
                   ELSE SyncCalls(s) = (IF real # {} THEN 1 ELSE 0)

C3_Witness ==
    \E s \in Slots :
        /\ req[s].kind = "GetMachines"
        /\ pc[s] = "done"
        /\ resp[s].status = "ok"
        /\ Len(loc[s].fetched) = 2
        /\ IsDefault(loc[s].fetched[1])
        /\ SyncCalls(s) = 1

\* C4: every machine in a successful response of GetMachines or GetMachine is
\* in masked form and was masked in that request; within a request masking
\* comes only after its classification and its sync, which work on records
\* as stored; masked records never reach the store.
C4_MaskedLast ==
    /\ \A m \in store : m.RemotePassword # "***"
    /\ \A s \in Slots :
         req[s].kind \in Reads =>
            /\ resp[s].status = "ok" =>
                  /\ EventsOf(s, "mask") # {}
                  /\ \A i \in 1..Len(resp[s].data) :
                        resp[s].data[i] = GetMaskedMachine(resp[s].data[i])
            /\ \A i \in EventsOf(s, "mask") :
                  \A j \in EventsOf(s, "classify") \cup EventsOf(s, "sync") : j < i
            /\ \A i \in 1..Len(loc[s].fetched) :
                  loc[s].fetched[i].RemotePassword # "***"

C4_Witness ==
    \E s \in Slots :
        /\ req[s].kind = "GetMachine"
        /\ resp[s].status = "ok"
        /\ SyncCalls(s) = 0
        /\ resp[s].data[1].RemotePassword = "***"
        /\ IsDefault(resp[s].data[1])

\* C5: when the sync call of a GetMachines or GetMachine fails, the request
\* ends with an error response carrying the sync error and no machine; the
\* failed sync is the request's only sync and nothing follows it but the
\* response.
C5_SyncErrorAborts ==
    \A s \in Slots :
        \A i \in EventsOf(s, "synced") :
            log[s][i].arg = "failed" =>
                /\ req[s].kind \in Reads
                /\ pc[s] = "done"
                /\ resp[s] = ResponseError(ErrSync)
                /\ resp[s].data = <<>>
                /\ SyncCalls(s) = 1
                /\ Len(log[s]) = i + 1
                /\ log[s][i + 1] = Event("respond", "error")

C5_Witness ==
    \E s \in Slots :
        /\ req[s].kind = "GetMachines"
        /\ Has(s, "synced", "failed")
        /\ Len(loc[s].fetched) = 2
        /\ pc[s] = "done"

\* C6: a GetMachines without pagination answers with the masked images of
\* exactly the machines the store lists for the owner at that read, none
\* dropped and none added whatever the filter and sort parameters, and the
\* read comes after the request's sync when one was due.
C6_ListIsWholeScope ==
    [][ \A s \in Slots :
          (pc[s] = "GetMachines_list" /\ resp'[s].status = "ok") =>
              LET listed == { m \in store : m.Owner = req[s].owner }
                  data == resp'[s].data
              IN  /\ Len(data) = Cardinality(listed)
                  /\ { data[i] : i \in 1..Len(data) }
                        = { GetMaskedMachine(m) : m \in listed }
                  /\ loc[s].hasNonDefaultMachine => Has(s, "synced", "ok") ]_vars

C6_Witness ==
    \E s \in Slots :
        /\ req[s].kind = "GetMachines"
        /\ req[s].p = ""
        /\ req[s].field = "state"
        /\ resp[s].status = "ok"
        /\ Len(resp[s].data) = 2
        /\ Has(s, "synced", "ok")

\* the page size and the number of matching machines at the page query
PageSizeOf(s) == ParseInt(req[s].pageSize)

MatchingNow(s) == Matching(store, req[s].owner, req[s].field, req[s].value)

\* C7 as claimed: a paginated GetMachines answers with total N and a slice of
\* min(k, N - offset) machines, N being the matching machines in the store,
\* whatever other requests wrote between the count and the page query.
C7_PageAlwaysExact ==
    [][ \A s \in Slots :
          (pc[s] = "GetMachines_page" /\ resp'[s].status = "ok") =>
              LET N == Cardinality(MatchingNow(s))
                  k == PageSizeOf(s)
              IN  /\ resp'[s].data2 = N
                  /\ Len(resp'[s].data) = Min(k, N - Offset(req[s].p, k, N)) ]_vars

\* C7 amended: the same, when the machines matching at the page query are the
\* ones that matched at the count query.
C7_PageExactWhenUndisturbed ==
    [][ \A s \in Slots :
          ( /\ pc[s] = "GetMachines_page"
            /\ resp'[s].status = "ok"
            /\ MatchingNow(s) = loc[s].counted ) =>
              LET N == Cardinality(MatchingNow(s))
                  k == PageSizeOf(s)
              IN  /\ resp'[s].data2 = N
                  /\ Len(resp'[s].data) = Min(k, N - Offset(req[s].p, k, N)) ]_vars

C7_Witness ==
    \E s \in Slots :
        /\ req[s].kind = "GetMachines"
        /\ req[s].pageSize = "2"
        /\ req[s].field = "provider"
        /\ Has(s, "page", "ok")
        /\ resp[s].data2 = 1
        /\ Len(resp[s].data) = 1
        /\ Cardinality({ m \in store : m.Owner = req[s].owner }) = 2
        /\ MatchingNow(s) = loc[s].counted

\* C8: a paginated GetMachines whose pageSize or p is no integer never ends
\* with a successful response.
C8_NonIntegerRejected ==
    \A s \in Slots :
        ( /\ req[s].kind = "GetMachines"
          /\ ~Unpaginated(req[s])
          /\ ~IsInteger(req[s].pageSize) \/ ~IsInteger(req[s].p) )
            => resp[s].status # "ok"

\* C9: a GetMachine whose fetch finds its id deleted, with no AddMachine of
\* that id since, ends with the not-found error (the store's error, when the
\* read itself failed), without a success response, a sync or a
\* classification.
C9_GetAfterDelete ==
    \A s \in Slots :
        (req[s].kind = "GetMachine" /\ loc[s].afterDelete) =>
            /\ pc[s] = "done"
            /\ resp[s].status = "error"
            /\ resp[s].msg = (IF Has(s, "fetch", "failed") THEN ErrStore ELSE ErrNotFound)
            /\ SyncCalls(s) = 0
            /\ EventsOf(s, "classify") = {}
            /\ EventsOf(s, "mask") = {}

C9_Witness ==
    \E s \in Slots :
        /\ req[s].kind = "GetMachine"
        /\ req[s].id = "alice/web1"
        /\ loc[s].afterDelete
        /\ Has(s, "fetch", "absent")
        /\ resp[s].msg = ErrNotFound

\* the record agrees with the decoded one in every field but the identity
SameButIdentity(m, decoded) ==
    [m EXCEPT !.Owner = decoded.Owner, !.Name = decoded.Name] = decoded

\* the store call of each write handler, and the id it names
OpOf(kind) ==
    CASE kind = "AddMachine" -> "add"
      [] kind = "UpdateMachine" -> "update"
      [] kind = "DeleteMachine" -> "delete"

TargetOf(r) == IF r.kind = "UpdateMachine" THEN r.id ELSE GetId(r.body.machine)

\* C10: an AddMachine, UpdateMachine or DeleteMachine makes no sync call,
\* classifies nothing and masks nothing; it makes at most one store call, of
\* its own kind and on the decoded machine as received, and the store changes
\* in at most the one record that call names.
C10_WritePath ==
    [][ \A s \in Slots :
          (pc[s] \in Writes /\ pc'[s] = "done") =>
              LET decoded == req[s].body.machine
                  done == log'[s]
                  ops == { i \in 1..Len(done) : done[i].ev # "respond" }
              IN  /\ Cardinality(ops) <= 1
                  /\ \A i \in ops :
                        /\ done[i].ev = OpOf(req[s].kind)
                        /\ loc'[s].written = decoded
                  /\ ops = {} => store' = store
                  /\ Cardinality(store' \ store) <= 1
                  /\ Cardinality(store \ store') <= 1
                  /\ \A m \in store' \ store : SameButIdentity(m, decoded)
                  /\ \A m \in (store' \ store) \cup (store \ store') :
                        GetId(m) = TargetOf(req[s]) ]_vars

C10_Witness ==
    \E s \in Slots :
        /\ req[s].kind = "AddMachine"
        /\ Has(s, "add", "ok")
        /\ aliceWeb \in store
        /\ req[s].body.machine = aliceWeb
        /\ loc[s].written = aliceWeb

\* C11: an AddMachine, UpdateMachine or DeleteMachine whose body does not
\* decode into a machine ends with an error response, without a store call
\* and with the store as it was.
C11_UndecodableBody ==
    [][ \A s \in Slots :
          (pc[s] \in Writes /\ pc'[s] = "done" /\ ~req[s].body.valid) =>
              /\ resp'[s] = ResponseError(ErrDecode)
              /\ log'[s] = <<Event("respond", "error")>>
              /\ loc'[s].written = NoMachine
              /\ store' = store
              /\ deleted' = deleted ]_vars

C11_Witness ==
    \E s \in Slots :
        /\ req[s].kind = "DeleteMachine"
        /\ ~req[s].body.valid
        /\ pc[s] = "done"
        /\ resp[s].msg = ErrDecode
        /\ store # {}

\* C12: a GetMachines with pagination asked for and a pageSize or p that is
\* no integer makes no sync call and no count or page query: it is rejected
\* before anything else is done.
C12_RejectedBeforeProcessing ==
    \A s \in Slots :
        ( /\ req[s].kind = "GetMachines"
          /\ ~Unpaginated(req[s])
          /\ ~IsInteger(req[s].pageSize) \/ ~IsInteger(req[s].p) )
            => /\ SyncCalls(s) = 0
               /\ EventsOf(s, "count") = {}
               /\ EventsOf(s, "page") = {}

StoreReads == {"fetch", "list", "count", "page", "refetch"}

\* C13: when a store read of a GetMachines or GetMachine fails (the first
\* fetch, the re-fetch, the count or the page query), the request ends with an
\* error response carrying the store's error and nothing follows the failed
\* read but the response; after a failed first fetch there is no sync call.
C13_ReadErrorAborts ==
    \A s \in Slots :
        \A i \in 1..Len(log[s]) :
            (log[s][i].ev \in StoreReads /\ log[s][i].arg = "failed") =>
                /\ req[s].kind \in Reads
                /\ pc[s] = "done"
                /\ resp[s] = ResponseError(ErrStore)
                /\ Len(log[s]) = i + 1
                /\ log[s][i + 1] = Event("respond", "error")
                /\ log[s][i].ev = "fetch" => SyncCalls(s) = 0 /\ i = 1

C13_Witness ==
    \E s \in Slots :
        /\ req[s].kind = "GetMachines"
        /\ Has(s, "synced", "ok")
        /\ Has(s, "count", "ok")
        /\ Has(s, "page", "failed")
        /\ resp[s].msg = ErrStore

\* the request in slot s has been answered once: by the response held in resp
AnsweredOnce(s) ==
    /\ resp[s].status \in {"ok", "error"}
    /\ EventsOf(s, "respond") = {Len(log[s])}
    /\ log[s][Len(log[s])] = Event("respond", resp[s].status)

Unanswered(s) == resp[s] = NoResponse /\ EventsOf(s, "respond") = {}

\* C14: every request ends, with one response and no more: a request that has
\* not ended has no response yet, one that has ended has exactly one, and a
\* request that was received does end.
C14_ExactlyOneResponse ==
    /\ [](\A s \in Slots : IF pc[s] = "done" THEN AnsweredOnce(s) ELSE Unanswered(s))
    /\ \A s \in Slots : (pc[s] \notin {"idle", "done"}) ~> (pc[s] = "done")

C14_Witness ==
    \E s \in Slots :
        /\ req[s].kind = "GetMachine"
        /\ pc[s] = "done"
        /\ Has(s, "synced", "failed")
        /\ AnsweredOnce(s)
        /\ resp[s].msg = ErrSync

\* the steps with which a read request that has synced reads the store for
\* its response
FinalRead == {"GetMachines_list", "GetMachines_page", "GetMachine_refetch"}

Range(seq) == { seq[i] : i \in 1..Len(seq) }

\* what a request asking r is to be given from store st: the masked machines
\* of the owner, the page of them cut with the handler's limit and count, or
\* the masked machine of the id
MaskedAnswer(st, r, l) ==
    CASE r.kind = "GetMachine" ->
           { GetMaskedMachine(m) : m \in { x \in st : GetId(x) = r.id } }
      [] r.kind = "GetMachines" /\ Unpaginated(r) ->
           { GetMaskedMachine(m) : m \in { x \in st : x.Owner = r.owner } }
      [] OTHER ->
           Range(GetMaskedMachines(
               GetPaginationMachines(st, r.owner, Offset(r.p, l.limit, l.count),
                                     l.limit, r.field, r.value,
                                     r.sortField, r.sortOrder)))

\* C15: when the records a request reads are, at the read that fills the
\* response, as the request's own sync left them, a successful GetMachines or
\* GetMachine returns exactly the masked records of that post-sync store, each
\* once.
C15_PostSyncRecords ==
    [][ \A s \in Slots :
          ( /\ pc[s] \in FinalRead
            /\ Has(s, "synced", "ok")
            /\ Scope(store, req[s]) = loc[s].postSync
            /\ resp'[s].status = "ok" ) =>
              /\ Range(resp'[s].data) = MaskedAnswer(loc[s].postSync, req[s], loc[s])
              /\ Len(resp'[s].data) = Cardinality(Range(resp'[s].data)) ]_vars

C15_Witness ==
    \E s \in Slots :
        /\ req[s].kind = "GetMachine"
        /\ pc[s] = "done"
        /\ Has(s, "synced", "ok")
        /\ resp[s].status = "ok"
        /\ loc[s].fetched[1].State = "Active"
        /\ resp[s].data[1].State = "Stopped"
        /\ resp[s].data[1] \in { GetMaskedMachine(m) : m \in store }

\* C16: a successful GetMachine response carries one record, masked, whose id
\* is the id asked for; a request whose re-fetch finds the record gone, deleted
\* by another request since the first fetch, answers with an error.
C16_SuccessCarriesRequestedId ==
    \A s \in Slots :
        /\ (req[s].kind = "GetMachine" /\ resp[s].status = "ok") =>
              /\ Len(resp[s].data) = 1
              /\ GetId(resp[s].data[1]) = req[s].id
              /\ resp[s].data[1] = GetMaskedMachine(resp[s].data[1])
        /\ (req[s].kind = "GetMachine" /\ Has(s, "refetch", "absent")) =>
              /\ resp[s] = ResponseError(ErrNotFound)
              /\ ~Has(s, "respond", "ok")

C16_Witness ==
    \E s \in Slots :
        /\ req[s].kind = "GetMachine"
        /\ Has(s, "fetch", "ok")
        /\ Has(s, "synced", "ok")
        /\ Has(s, "refetch", "absent")
        /\ req[s].id \in deleted
        /\ resp[s].status = "error"

\* the ids of the machines among ms that are not default
NonDefaultIds(ms) == { GetId(m) : m \in { x \in ms : ~IsDefault(x) } }

\* C17 as claimed: a successful GetMachines response with a machine in it that
\* is not default comes from a request that called the sync, whatever other
\* requests wrote meanwhile.
C17_SyncWheneverNonDefault ==
    \A s \in Slots :
        ( /\ req[s].kind = "GetMachines"
          /\ resp[s].status = "ok"
          /\ \E i \in 1..Len(resp[s].data) : ~IsDefault(resp[s].data[i]) )
            => SyncCalls(s) >= 1

\* C17 amended: the same, when every machine of the owner that is not default
\* at the read filling the response was already there, not default, at the
\* first fetch.
C17_SyncWhenUndisturbed ==
    [][ \A s \in Slots :
          ( /\ pc[s] \in {"GetMachines_list", "GetMachines_page"}
            /\ resp'[s].status = "ok"
            /\ NonDefaultIds({ m \in store : m.Owner = req[s].owner })
                 \subseteq NonDefaultIds(Range(loc[s].fetched))
            /\ \E i \in 1..Len(resp'[s].data) : ~IsDefault(resp'[s].data[i]) )
              => /\ SyncCalls(s) = 1
                 /\ Has(s, "sync", req[s].owner) ]_vars

C17_Witness ==
    \E s \in Slots :
        /\ req[s].kind = "GetMachines"
        /\ resp[s].status = "ok"
        /\ Len(loc[s].fetched) = 2
        /\ IsDefault(loc[s].fetched[1])
        /\ \E i \in 1..Len(resp[s].data) : ~IsDefault(resp[s].data[i])
        /\ NonDefaultIds(Range(resp[s].data)) \subseteq NonDefaultIds(Range(loc[s].fetched))
        /\ Has(s, "sync", req[s].owner)

\* the default records of a store
Defaults(st) == { m \in st : IsDefault(m) }

\* C18: a step of a GetMachines or GetMachine changes the store only when it
\* is the sync step; a request whose first fetch held no machine that is not
\* default (a GetMachine of a default record among them) changes nothing in
\* the store; and the sync step leaves the default records as they were.
C18_ReadsChangeStoreOnlyBySync ==
    [][ \A s \in Slots :
          (req[s].kind \in Reads /\ pc[s] # "done" /\ pc'[s] # pc[s]) =>
              /\ pc[s] \notin {"GetMachines_sync", "GetMachine_sync"} => store' = store
              /\ (Has(s, "fetch", "ok") /\ ~hasNonDefaultMachine(loc[s].fetched))
                    => store' = store
              /\ Defaults(store') = Defaults(store) ]_vars

C18_Witness ==
    \E s \in Slots :
        /\ req[s].kind = "GetMachines"
        /\ pc[s] = "GetMachines_list"
        /\ Has(s, "synced", "ok")
        /\ Defaults(Range(loc[s].fetched)) # {}
        /\ Defaults(Range(loc[s].fetched)) \subseteq loc[s].postSync
        /\ ~(Range(loc[s].fetched) \subseteq loc[s].postSync)

====
